---- MODULE Spec2Model ----
(***************************************************************************)
(* Model of cosmoslib/mcmc.py: the MCMC orchestration class (parameter     *)
(* bookkeeping, flat prior, posterior evaluation, run controller,          *)
(* best-fit extraction).                                                   *)
(*                                                                         *)
(* Numbers are records [isint, v]: a Python int or a Python float whose    *)
(* value is the integer v.  The int/float distinction is kept because      *)
(* numpy derives an array's dtype from it.  Python dicts are sequences of  *)
(* [k, v] entries in insertion order.                                      *)
(***************************************************************************)
EXTENDS Integers, Sequences, FiniteSets, TLC

\* the object's attributes (backend: the file behind backend_file, which
\* the object was constructed with and which may exist already; run is
\* called without further keywords)
VARIABLES n_walkers, initial_delta, sampler, cosmology, base_params,
          fit_params, fit_keys, likelihoods, backend
\* the last call: its name, arguments, result, and what it passed on
VARIABLES call, arg_params, arg_theta, arg_run, ret, ret_val, pushed, run_obs
\* keys in the order they first entered the current fit_params dict
VARIABLES inserted

state == <<n_walkers, initial_delta, sampler, cosmology, base_params,
           fit_params, fit_keys, likelihoods, backend>>
obs == <<call, arg_params, arg_theta, arg_run, ret, ret_val, pushed, run_obs>>
vars == <<state, obs, inserted>>

(* ------------------------------ bounds --------------------------------- *)
MaxTheta == 3
MaxWalkers == 3
MaxLikes == 1
MaxSteps == 1
MaxIter == 2
MaxSeed == 0
MaxRows == 3

(* ------------------------------ values --------------------------------- *)
\* the parameter names in use
Keys == {"H0", "ns"}

Num(isint, v) == [isint |-> isint, v |-> v]
F(v) == Num(FALSE, v)
I(v) == Num(TRUE, v)

\* a value of the configuration mapping: its Python type and its items
\* (a scalar has one item, itself)
Scalar(n) == [kind |-> "scalar", items |-> <<n>>]
List(s) == [kind |-> "list", items |-> s]
Tuple(s) == [kind |-> "tuple", items |-> s]

ParamValues ==
    { Scalar(F(1)),
      List(<<F(0), F(1), F(2)>>), List(<<I(0), I(1), I(2)>>),
      List(<<F(0), F(1)>>),
      Tuple(<<F(1), F(2), F(3)>>) }

\* the list of the items of f
AsList(f) == <<>> \o f

(* ------------------------------ dicts ---------------------------------- *)
Entry(k, v) == [k |-> k, v |-> v]
DictKeys(d) == [i \in 1..Len(d) |-> d[i].k]
DictHas(d, k) == \E i \in 1..Len(d) : d[i].k = k
DictGet(d, k) == d[CHOOSE i \in 1..Len(d) : d[i].k = k].v
DictSet_reinsert(d, k, v) ==
    Append(SelectSeq(d, LAMBDA e : e.k # k), Entry(k, v))

\* d[k] = v: an existing key keeps its position, a new key goes last
DictSet(d, k, v) ==
    IF DictHas(d, k)
    THEN [i \in 1..Len(d) |-> IF d[i].k = k THEN Entry(k, v) ELSE d[i]]
    ELSE Append(d, Entry(k, v))

\* the dicts a caller can pass: distinct keys, in any order
RECURSIVE DictsOver(_)
DictsOver(ks) ==
    IF ks = {} THEN {<<>>}
    ELSE LET smaller == UNION {DictsOver(ks \ {k}) : k \in ks}
         IN  smaller \cup
             {Append(d, Entry(k, v)) :
                 d \in {e \in smaller : Len(e) = Cardinality(ks) - 1},
                 k \in ks, v \in ParamValues}
ParamDicts == {d \in DictsOver(Keys) :
                 \A i, j \in 1..Len(d) : i # j => d[i].k # d[j].k}

(* ------------------------------ results -------------------------------- *)
NoResult == [st |-> "none", neginf |-> FALSE, v |-> 0]
Ret(x) == [st |-> "ret", neginf |-> FALSE, v |-> x]
NegInf == [st |-> "ret", neginf |-> TRUE, v |-> 0]
Raise(e) == [st |-> e, neginf |-> FALSE, v |-> 0]
Returned(r) == r.st = "ret"
Raised(r) == r.st \notin {"ret", "none"}

NoCosmology == [set |-> FALSE]
Cosmology == [set |-> TRUE]
\* self.sampler: None, an ensemble sampler built by run (its samples are the
\* ones in the backend file), or an object assigned to the attribute that
\* holds its own flattened arrays
NoSampler == [set |-> FALSE, own |-> FALSE, nwalkers |-> 0, ndim |-> 0,
              start |-> <<>>, flatchain |-> <<>>, flatlnprobability |-> <<>>]
\* the backend file: absent, or a (nwalkers, ndim) store of the saved steps,
\* each step the walkers' coordinates and their log-probabilities
NoBackend == [initialized |-> FALSE, nwalkers |-> 0, ndim |-> 0,
              chain |-> <<>>]
NoPush == [called |-> FALSE, mapping |-> <<>>]
Push(m) == [called |-> TRUE, mapping |-> m]
NoRun == [out |-> "returns", ps |-> 0]
NoRunObs == [ndim |-> 0, before |-> 0, N |-> 0, resume |-> FALSE,
             given |-> FALSE, pos0 |-> <<>>, reset |-> -1, generated |-> -1,
             built |-> -1, started |-> FALSE, start |-> <<>>,
             evaluations |-> 0]

\* what the last call was and what it did
Observe(c, ap, at, ar, r, rv, p, ro) ==
    /\ call' = c
    /\ arg_params' = ap
    /\ arg_theta' = at
    /\ arg_run' = ar
    /\ ret' = r
    /\ ret_val' = rv
    /\ pushed' = p
    /\ run_obs' = ro

(* --------------------------- MCMC.__init__ ----------------------------- *)
Attributes(nw, delta, smp, file) ==
    /\ n_walkers = nw
    /\ initial_delta = delta
    /\ sampler = smp
    /\ cosmology = NoCosmology
    /\ base_params = <<>>
    /\ fit_params = <<>>
    /\ fit_keys = <<>>
    /\ likelihoods = <<>>
    /\ backend = file
    /\ call = "init"
    /\ arg_params = <<>>
    /\ arg_theta = <<>>
    /\ arg_run = NoRun
    /\ ret = NoResult
    /\ ret_val = <<>>
    /\ pushed = NoPush
    /\ run_obs = NoRunObs
    /\ inserted = <<>>

Constructed(nw, delta) == Attributes(nw, delta, NoSampler, NoBackend)

Init == \E nw \in 1..MaxWalkers, delta \in {0, 1} : Constructed(nw, delta)

(* --------------------------- MCMC.set_params --------------------------- *)
RECURSIVE set_params_loop(_, _, _)
set_params_loop_notuple(params, i, st) ==
    IF i > Len(params) THEN st
    ELSE LET k == params[i].k
             p == params[i].v
         IN  set_params_loop(params, i + 1,
               IF p.kind = "list"
               THEN [st EXCEPT !.fit = DictSet(st.fit, k, p.items)]
               ELSE [st EXCEPT !.base = DictSet(st.base, k, p.items[1])])

\* the loop of lines 27-34 from entry i on; st = [base, fit]
set_params_loop(params, i, st) ==
    IF i > Len(params) THEN st
    ELSE LET k == params[i].k
             p == params[i].v
         IN  set_params_loop(params, i + 1,
               IF p.kind = "list"
               THEN [st EXCEPT !.fit = DictSet(st.fit, k, p.items)]
               ELSE IF p.kind = "tuple"
               THEN [st EXCEPT !.fit = DictSet(st.fit, k, p.items)]
               ELSE [st EXCEPT !.base = DictSet(st.base, k, p.items[1])])

\* keys in the order they first entered the current fit_params dict
RECURSIVE FirstInserted(_, _, _)
FirstInserted(params, i, seen) ==
    IF i > Len(params) THEN seen
    ELSE FirstInserted(params, i + 1,
           IF /\ params[i].v.kind \in {"list", "tuple"}
              /\ \A j \in 1..Len(seen) : seen[j] # params[i].k
           THEN Append(seen, params[i].k) ELSE seen)

\* accepts: whether cosmology.set_model_params returns (line 41); when it
\* raises, its exception escapes after the attributes were written
set_params(params, accepts) ==
    LET st == set_params_loop(params, 1,
                              [base |-> base_params, fit |-> fit_params])
    IN  /\ base_params' = st.base
        /\ fit_params' = st.fit
        /\ fit_keys' = DictKeys(st.fit)
        /\ Observe("set_params", params, <<>>, NoRun,
                   IF cosmology.set /\ ~accepts THEN Raise("ValueError")
                   ELSE Ret(0),
                   <<>>,
                   IF cosmology.set THEN Push(st.base) ELSE NoPush, NoRunObs)
        /\ inserted' = FirstInserted(params, 1, inserted)
        /\ UNCHANGED <<n_walkers, initial_delta, sampler, cosmology,
                       likelihoods, backend>>

(* --------------------------- MCMC.reset_params ------------------------- *)
reset_params ==
    /\ base_params' = <<>>
    /\ fit_params' = <<>>
    /\ fit_keys' = <<>>
    /\ Observe("reset_params", <<>>, <<>>, NoRun, Ret(0), <<>>, NoPush,
               NoRunObs)
    /\ inserted' = <<>>
    /\ UNCHANGED <<n_walkers, initial_delta, sampler, cosmology, likelihoods,
                   backend>>

(* --------------------------- MCMC.set_cosmology ------------------------ *)
\* accepts: whether cm.set_model_params returns (line 67)
set_cosmology(accepts) ==
    /\ cosmology' = Cosmology
    /\ Observe("set_cosmology", <<>>, <<>>, NoRun,
               IF accepts THEN Ret(0) ELSE Raise("ValueError"), <<>>,
               Push(base_params), NoRunObs)
    /\ UNCHANGED <<n_walkers, initial_delta, sampler, base_params, fit_params,
                   fit_keys, likelihoods, backend, inserted>>

(* ------------------- parameter manager specification ------------------- *)
NextParams ==
    \/ \E params \in ParamDicts, accepts \in BOOLEAN :
          set_params(params, accepts)
    \/ reset_params
    \/ \E accepts \in BOOLEAN : set_cosmology(accepts)

SpecParams == Constructed(2, 1) /\ [][NextParams]_vars

(* --------------------------- MCMC.lnprior ------------------------------ *)
ThetaVals == {F(v) : v \in 0..MaxTheta}
Thetas == [1..Len(fit_keys) -> ThetaVals]

\* the loop of lines 46-55 from index i on (1-based)
RECURSIVE lnprior_loop(_, _)
lnprior_loop(theta, i) ==
    IF i > Len(fit_keys) THEN Ret(0)
    ELSE LET b == DictGet(fit_params, fit_keys[i])
         IN  IF Len(b) < 3 THEN Raise("IndexError")
             ELSE IF i > Len(theta) THEN Raise("IndexError")
             ELSE IF theta[i].v < b[1].v THEN NegInf
             ELSE IF theta[i].v > b[3].v THEN NegInf
             ELSE lnprior_loop(theta, i + 1)

lnprior_strict(theta) ==
    LET r == lnprior_loop(theta, 1)
    IN  IF /\ r = Ret(0)
           /\ \E i \in 1..Len(fit_keys) :
                 theta[i].v \in {DictGet(fit_params, fit_keys[i])[1].v,
                                 DictGet(fit_params, fit_keys[i])[3].v}
        THEN NegInf ELSE r

lnprior(theta) == lnprior_loop(theta, 1)

do_lnprior ==
    \E theta \in Thetas :
        /\ Observe("lnprior", <<>>, theta, NoRun, lnprior(theta), <<>>,
                   NoPush, NoRunObs)
        /\ UNCHANGED <<state, inserted>>

(* --------------------------- MCMC.add_likelihood ----------------------- *)
\* a likelihood w stands for the function ps |-> -(w * ps)
LikeFuncs == {2}
like_func(w, ps) == 0 - w * ps

add_likelihood ==
    /\ Len(likelihoods) < MaxLikes
    /\ \E likelihood \in LikeFuncs :
           likelihoods' = Append(likelihoods, likelihood)
    /\ Observe("add_likelihood", <<>>, <<>>, NoRun, Ret(0), <<>>, NoPush,
               NoRunObs)
    /\ UNCHANGED <<n_walkers, initial_delta, sampler, cosmology, base_params,
                   fit_params, fit_keys, backend, inserted>>

(* --------------------------- MCMC.generate_theory ---------------------- *)
\* what the cosmology does this time: set_model_params raises ("rejects"),
\* or it returns and full_run raises an exception derived from Exception
\* ("fails"), raises one that is not, such as KeyboardInterrupt
\* ("interrupted"), or returns spectra ps ("returns")
FullRuns == {[out |-> o, ps |-> 0] : o \in {"rejects", "fails", "interrupted"}}
            \cup {[out |-> "returns", ps |-> 1]}

\* lines 72-74
RECURSIVE model_params_loop(_, _, _)
model_params_loop(theta, i, mp) ==
    IF i > Len(fit_keys) THEN mp
    ELSE model_params_loop(theta, i + 1, DictSet(mp, fit_keys[i], theta[i]))

GT(st, results, error, mapping) ==
    [st |-> st, results |-> results, error |-> error, pushed |-> mapping]

generate_theory_reraise(theta, run) ==
    LET mp == Push(model_params_loop(theta, 1, <<>>))
    IN  IF Len(theta) < Len(fit_keys) THEN GT("IndexError", 0, FALSE, NoPush)
        ELSE IF ~cosmology.set THEN GT("AttributeError", 0, FALSE, NoPush)
        ELSE IF run.out = "rejects" THEN GT("ValueError", 0, FALSE, mp)
        ELSE IF run.out = "interrupted"
        THEN GT("KeyboardInterrupt", 0, FALSE, mp)
        ELSE IF run.out = "fails" THEN GT("Exception", 0, FALSE, mp)
        ELSE GT("ret", run.ps, FALSE, mp)

\* [st, results, error]: the returned pair, or the exception that escapes;
\* pushed: the mapping handed to cosmology.set_model_params
\* line 76 is outside the try, and line 79 catches Exception only
generate_theory(theta, run) ==
    LET mp == Push(model_params_loop(theta, 1, <<>>))
    IN  IF Len(theta) < Len(fit_keys) THEN GT("IndexError", 0, FALSE, NoPush)
        ELSE IF ~cosmology.set THEN GT("AttributeError", 0, FALSE, NoPush)
        ELSE IF run.out = "rejects" THEN GT("ValueError", 0, FALSE, mp)
        ELSE IF run.out = "interrupted"
        THEN GT("KeyboardInterrupt", 0, FALSE, mp)
        ELSE IF run.out = "fails" THEN GT("ret", 0, TRUE, mp)
        ELSE GT("ret", run.ps, FALSE, mp)

do_generate_theory ==
    \E theta \in Thetas, run \in FullRuns :
        LET g == generate_theory(theta, run)
        IN  /\ Observe("generate_theory", <<>>, theta, run,
                       IF g.st = "ret" THEN Ret(g.results) ELSE Raise(g.st),
                       <<g.error>>, g.pushed, NoRunObs)
            /\ UNCHANGED <<state, inserted>>

(* --------------------------- MCMC.lnprob ------------------------------- *)
Unbound == [bound |-> FALSE, v |-> 0]
Bound(x) == [bound |-> TRUE, v |-> x]

\* lines 95-96 from likelihood i on; like is the local accumulator, which
\* line 96 reads before anything has assigned it
RECURSIVE like_loop(_, _, _)
like_loop(ps_theory, i, like) ==
    IF i > Len(likelihoods) THEN like
    ELSE IF ~like.bound THEN like
    ELSE like_loop(ps_theory, i + 1,
                   Bound(like.v + like_func(likelihoods[i], ps_theory)))

lnprob(theta, run) ==
    LET g == generate_theory(theta, run)
    IN  IF g.st # "ret" THEN Raise(g.st)
        ELSE IF g.error THEN NegInf
        ELSE LET prior == lnprior(theta)
             IN  IF Raised(prior) THEN prior
                 ELSE IF ~prior.neginf
                 THEN LET like == like_loop(g.results, 1, Unbound)
                      IN  IF ~like.bound THEN Raise("UnboundLocalError")
                          ELSE Ret(prior.v + like.v)
                 ELSE NegInf

do_lnprob ==
    \E theta \in Thetas, run \in FullRuns :
        /\ Observe("lnprob", <<>>, theta, run, lnprob(theta, run), <<>>,
                   generate_theory(theta, run).pushed, NoRunObs)
        /\ UNCHANGED <<state, inserted>>

(* ------------------- prior / posterior specifications ------------------ *)
\* the configuration call that precedes the evaluations
Configure ==
    /\ call = "init"
    /\ \E params \in ParamDicts : set_params(params, TRUE)

NextPrior ==
    \/ Configure
    \/ do_lnprior

SpecPrior == Constructed(2, 1) /\ [][NextPrior]_vars

NextEval ==
    \/ Configure
    \/ set_cosmology(TRUE)
    \/ add_likelihood
    \/ do_generate_theory
    \/ do_lnprob

SpecEval == Constructed(2, 1) /\ [][NextEval]_vars

(* --------------------------- MCMC.generate_initial_pos ----------------- *)
\* the values np.random.randn(ndim) takes for each walker: a few matrices of
\* draws from {-1, 0, 1}
DrawMatrices(nw, ndim) ==
    {[w \in 1..nw |-> [c \in 1..ndim |-> ((w + c + s) % 3) - 1]] :
        s \in 0..MaxSeed}

FirstDraws(nw, ndim) == [w \in 1..nw |-> [c \in 1..ndim |-> ((w + c) % 3) - 1]]

\* np.array(list) of Python numbers is an integer array when the list is not
\* empty and holds only ints, a float array otherwise
IntArray(xs) == Len(xs) > 0 /\ \A c \in 1..Len(xs) : xs[c].isint

\* [st, pos]: the list of positions, or the exception that escapes
generate_initial_pos(nw, draws) ==
    IF nw <= 0 THEN [st |-> "ret", pos |-> <<>>]
    ELSE IF \E c \in 1..Len(fit_keys) :
               Len(DictGet(fit_params, fit_keys[c])) < 2
    THEN [st |-> "IndexError", pos |-> <<>>]
    ELSE LET fid == [c \in 1..Len(fit_keys) |->
                        DictGet(fit_params, fit_keys[c])[2]]
         IN  IF IntArray(fid)
             \* pos += <float array> cannot be cast back into an int array
             THEN [st |-> "UFuncTypeError", pos |-> <<>>]
             ELSE [st |-> "ret",
                   pos |-> AsList([w \in 1..nw |->
                       AsList([c \in 1..Len(fit_keys) |->
                           F(fid[c].v
                             + draws[w][c] * initial_delta * fid[c].v)])])]

do_generate_initial_pos ==
    \E draws \in DrawMatrices(n_walkers, Len(fit_keys)) :
        LET g == generate_initial_pos(n_walkers, draws)
        IN  /\ Observe("generate_initial_pos", <<>>, <<>>, NoRun,
                       IF g.st = "ret" THEN Ret(0) ELSE Raise(g.st), g.pos,
                       NoPush, NoRunObs)
            /\ UNCHANGED <<state, inserted>>

(* --------------------------- MCMC.run ---------------------------------- *)
\* a log-probability held in an array: minus infinity or a finite number
LpNegInf == [neginf |-> TRUE, v |-> 0]
Lp(x) == [neginf |-> FALSE, v |-> x]
Less(a, b) == IF a.neginf THEN ~b.neginf ELSE (~b.neginf /\ a.v < b.v)

\* the positions a caller supplies through pos0
SuppliedPos0(nw, ndim) == [w \in 1..nw |-> [c \in 1..ndim |-> F(7)]]

corrected_walkers_slip(nw, ndim) == IF nw < ndim THEN 2 * ndim ELSE nw

\* lines 116-117
corrected_walkers(nw, ndim) == IF nw < 2 * ndim THEN 2 * ndim ELSE nw

RECURSIVE ColSum(_, _, _)
ColSum(pos, c, w) ==
    IF w > Len(pos) THEN 0 ELSE pos[w][c].v + ColSum(pos, c, w + 1)

\* column c of pos minus its mean, times the number of walkers
Centered(pos, c) ==
    [w \in 1..Len(pos) |-> Len(pos) * pos[w][c].v - ColSum(pos, c, 1)]

\* the sampler's test of its start positions before it evaluates anything:
\* no coordinate may be the same for all walkers and the centred columns
\* must be linearly independent (with at most two columns: not proportional)
walkers_independent(pos, ndim) ==
    /\ \A c \in 1..ndim : \E w \in 1..Len(pos) : Centered(pos, c)[w] # 0
    /\ \A c, d \in 1..ndim :
          c < d => \E w, x \in 1..Len(pos) :
                      Centered(pos, c)[w] * Centered(pos, d)[x]
                          # Centered(pos, c)[x] * Centered(pos, d)[w]

\* the value of a one-element set
Only(S) == CHOOSE x \in S : TRUE

\* the stretch factors z a walker can draw, in halves: the sampler draws
\* z = (u + 1)^2 / 2 with u uniform in [0, 1), a number from 1/2 up to 2;
\* the largest draws are taken as 2
Stretch == {1, 2, 3, 4}

\* the uniform draws u of the acceptance test: close to 0, or close to 1
Uniform == {0, 1}

\* the red-blue move gives the walkers the labels arange(nw) % 2 and
\* shuffles the labels afresh in every step: any labelling with the same
\* number of zeros
Splits(nw) ==
    {inds \in [1..nw -> {0, 1}] :
        Cardinality({w \in 1..nw : inds[w] = 0}) = (nw + 1) \div 2}

\* the walkers labelled split, in index order
Half(inds, split) ==
    SelectSeq([w \in 1..Len(inds) |-> w], LAMBDA w : inds[w] = split)

\* the stretch move for a walker at s from a walker at c of the other half:
\* c - (c - s) * z
get_proposal(s, c, z) ==
    AsList([k \in 1..Len(s) |-> F(c[k].v + ((s[k].v - c[k].v) * z) \div 2)])

\* the draw gives a point the model's numbers can hold
ExactProposal(s, c, z) ==
    \A k \in 1..Len(s) : ((s[k].v - c[k].v) * z) % 2 = 0

\* the evaluations lnprob was called for: how many, and the last position
NoEval == [count |-> 0, last |-> <<>>]
Evaluated(pos, count) == [count |-> count, last |-> pos[count]]
Join(e, f) == IF f.count = 0 THEN e
              ELSE [count |-> e.count + f.count, last |-> f.last]

\* log-probabilities evaluated in the order of pos: [st, lp, done]; the
\* first exception lnprob raises escapes, done counts the calls made
compute_log_prob(pos, run) ==
    Only({ IF \A w \in 1..Len(pos) : ~Raised(r[w])
           THEN [st |-> "ret",
                 lp |-> [w \in 1..Len(pos) |->
                            [neginf |-> r[w].neginf, v |-> r[w].v]],
                 done |-> Len(pos)]
           ELSE LET first == CHOOSE w \in 1..Len(pos) :
                                 /\ Raised(r[w])
                                 /\ \A x \in 1..(w - 1) : ~Raised(r[x])
                IN  [st |-> r[first].st, lp |-> <<>>, done |-> first]
           : r \in {AsList([w \in 1..Len(pos) |-> lnprob(pos[w], run)])} })

\* the Metropolis test log(u) < (ndim - 1) * log(z) + new - old: a proposal
\* at minus infinity is never accepted, a finite one against a walker at
\* minus infinity always is.  Between two finite values a draw u close to 0
\* accepts; a draw close to 1 accepts exactly when the right-hand side is
\* not negative (|log z| < 1 and ndim <= 2 here).
Accept(old, new, ndim, z, u) ==
    /\ ~new.neginf
    /\ \/ old.neginf
       \/ u = 0
       \/ new.v - old.v >= 1
       \/ new.v = old.v /\ (ndim = 1 \/ z >= 2)

\* the ensemble with walker w at q, its log-probability lp
Moved(ens, w, q, lp) ==
    [coords |-> [ens.coords EXCEPT ![w] = q],
     log_prob |-> [ens.log_prob EXCEPT ![w] = lp]]

\* what walker w can be proposed from walker j and what lnprob makes of
\* it, over the draws of its stretch factor: [q, z, r]
Stretched(now, w, j, run) ==
    UNION { { [q |-> q, z |-> z, r |-> lnprob(q, run)] :
                q \in {get_proposal(now.coords[w], now.coords[j], z)} }
            : z \in {z \in Stretch :
                        ExactProposal(now.coords[w], now.coords[j], z)} }

\* Stretched for every walker and every other walker of the ensemble
Proposable(now, run) ==
    AsList([w \in 1..Len(now.coords) |->
        AsList([j \in 1..Len(now.coords) |->
            IF j = w THEN {} ELSE Stretched(now, w, j, run)])])

\* what walker w can be proposed, over the draw of its partner among the
\* walkers C of the other half as well
Proposed(can, w, C) == UNION {can[w][C[k]] : k \in 1..Len(C)}

\* the ensembles that proposal p can leave walker w of ens in, over the
\* uniform draw of its acceptance test; the draw for a proposal at minus
\* infinity changes nothing
Settled(now, ens, w, p) ==
    { IF Accept(now.log_prob[w], [neginf |-> p.r.neginf, v |-> p.r.v],
                Len(now.coords[w]), p.z, u)
      THEN Moved(ens, w, p.q, [neginf |-> p.r.neginf, v |-> p.r.v])
      ELSE ens
      : u \in IF p.r.neginf THEN {1} ELSE Uniform }

\* what one half of a step can give: the walkers S are proposed from the
\* walkers C of the other half, the proposals are evaluated in the order of
\* S and the first exception lnprob raises escapes, then each walker's
\* proposal is accepted or not.  The draws of a walker do not depend on the
\* other walkers', so the outcomes are collected walker by walker, from the
\* i-th walker of S on; can = Proposable(now, run), and ens holds the
\* accepted proposals of the walkers before it.  [st, next, E]: the
\* exception or the walkers after the update, and the evaluations made
RECURSIVE propose(_, _, _, _, _, _)
propose(now, can, ens, S, C, i) ==
    IF i > Len(S) THEN {[st |-> "ret", next |-> ens, E |-> NoEval]}
    ELSE UNION {
        { [st |-> p.r.st, next |-> now, E |-> [count |-> 1, last |-> p.q]] :
            p \in {p \in ps : Raised(p.r)} }
        \cup UNION {
            UNION { { [st |-> o.st, next |-> o.next,
                       E |-> Join([count |-> 1, last |-> p.q], o.E)] :
                      p \in {p \in ps : /\ ~Raised(p.r)
                                        /\ next \in Settled(now, ens, S[i], p)},
                      o \in rest }
                    : rest \in {propose(now, can, next, S, C, i + 1)} }
            : next \in UNION {Settled(now, ens, S[i], p) :
                                p \in {p \in ps : ~Raised(p.r)}} }
        : ps \in {Proposed(can, S[i], C)} }

\* the outcomes in S that returned, and the walkers they left
Went(S) == {s \in S : s.st = "ret"}
Left(S) == {s.next : s \in Went(S)}

\* one step under the labels inds: the walkers labelled 0 are updated, then
\* the walkers labelled 1 from the updated ensemble; can = Proposable(now,
\* run); [st, next, E]
step_with(now, can, inds, run) ==
    UNION { (first \ Went(first))
            \cup UNION { UNION { { [st |-> b.st, next |-> b.next,
                                    E |-> Join(a.E, b.E)] :
                                   a \in {a \in Went(first) : a.next = mid},
                                   b \in second }
                                 : second \in {propose(mid,
                                     IF mid = now THEN can
                                     ELSE Proposable(mid, run),
                                     mid, Half(inds, 1), Half(inds, 0), 1)} }
                         : mid \in Left(first) }
            : first \in {propose(now, can, now, Half(inds, 0), Half(inds, 1),
                                 1)} }

\* one step of the sampler, over the shuffles of the labels
step(now, run) ==
    UNION { UNION { step_with(now, can, inds, run) :
                      inds \in Splits(Len(now.coords)) }
            : can \in {Proposable(now, run)} }

\* what n more steps can give, every completed step being saved; ss =
\* step(now, run), which a step that moved no walker leaves as it is;
\* [st, steps, E]
RECURSIVE sample(_, _, _, _, _)
sample(now, ss, n, run, steps) ==
    IF n = 0 THEN {[st |-> "ret", steps |-> steps, E |-> NoEval]}
    ELSE { [st |-> s.st, steps |-> steps, E |-> s.E] : s \in ss \ Went(ss) }
         \cup UNION { UNION { { [st |-> o.st, steps |-> o.steps,
                                 E |-> Join(s.E, o.E)] :
                                s \in {s \in Went(ss) : s.next = next},
                                o \in rest }
                              : rest \in {sample(next,
                                    IF next = now THEN ss
                                    ELSE step(next, run),
                                    n - 1, run, Append(steps, next))} }
                      : next \in Left(ss) }

\* what sampler.run_mcmc(pos0, N) of line 139 can give: [st, steps, E].
\* The exception names are those of numpy at the versions emcee 3 runs on.
run_mcmc(pos0, N, ndim, run) ==
    IF ndim = 0
    THEN {[st |-> "LinAlgError", steps |-> <<>>, E |-> NoEval]}
    ELSE IF ~walkers_independent(pos0, ndim)
    THEN {[st |-> "ValueError", steps |-> <<>>, E |-> NoEval]}
    ELSE UNION {
        IF e.st # "ret"
        THEN {[st |-> e.st, steps |-> <<>>, E |-> Evaluated(pos0, e.done)]}
        ELSE { [st |-> o.st, steps |-> o.steps,
                E |-> Join(Evaluated(pos0, e.done), o.E)] :
               o \in sample([coords |-> pos0, log_prob |-> e.lp],
                            step([coords |-> pos0, log_prob |-> e.lp], run),
                            N, run, <<>>) }
        : e \in {compute_log_prob(pos0, run)} }

\* what lines 122-131 leave: [st, pos0, backend]; reading a file that does
\* not exist raises h5py's FileNotFoundError (h5py 3)
load(nw, ndim, resume, draws) ==
    IF resume
    THEN (IF ~backend.initialized
          THEN [st |-> "FileNotFoundError", pos0 |-> <<>>, backend |-> backend]
          ELSE IF Len(backend.chain) = 0
          THEN [st |-> "AttributeError", pos0 |-> <<>>, backend |-> backend]
          ELSE [st |-> "ret",
                pos0 |-> backend.chain[Len(backend.chain)].coords,
                backend |-> backend])
    ELSE Only({ [st |-> g.st, pos0 |-> g.pos,
                 backend |-> [initialized |-> TRUE, nwalkers |-> nw,
                              ndim |-> ndim, chain |-> <<>>]]
                : g \in {generate_initial_pos(nw, draws)} })

\* given: whether the caller passes pos0; draws, full_run: what numpy and
\* the cosmology do during this run; the sampler's random draws are chosen
\* inside run_mcmc.  resume reads the backend file (lines 125-128), which
\* fails when there is no file and when the file holds no step; the sampler
\* refuses a backend of another shape (line 135).  self.sampler is assigned
\* before run_mcmc is called (lines 138-139), so it is replaced even when
\* the sampling raises.  A run that builds no sampler reads neither N nor
\* pos0, a run that starts no sampling does not read pos0, and a run in
\* which the cosmology is never called (calls) does not consult full_run:
\* such runs are taken with N = 0, without pos0 and with one full_run.
\* self._counter (line 113) is written and never read, and is not kept.
run(N, given, resume, draws, full_run) ==
    \E ndim \in {Len(fit_keys)} :
    \E nw \in {corrected_walkers(n_walkers, ndim)} :
    \E l \in {load(nw, ndim, resume, draws)} :
    \E built \in {l.st = "ret" /\ l.backend.nwalkers = nw
                               /\ l.backend.ndim = ndim} :
    \E calls \in {built /\ N > 0 /\ cosmology.set /\ ndim > 0
                         /\ walkers_independent(l.pos0, ndim)} :
    /\ Len(l.backend.chain) + N <= MaxIter
    /\ ~built => N = 0
    /\ ~(built /\ N > 0) => ~given
    /\ ~calls => full_run.out = "fails"
    /\ \E m \in (IF built /\ N > 0 THEN run_mcmc(l.pos0, N, ndim, full_run)
                 ELSE {[st |-> "ret", steps |-> <<>>, E |-> NoEval]}) :
        /\ n_walkers' = nw
        /\ backend' = [l.backend EXCEPT !.chain = @ \o m.steps]
        /\ sampler' = IF built /\ N > 0
                      THEN [set |-> TRUE, own |-> FALSE, nwalkers |-> nw,
                            ndim |-> ndim, start |-> l.pos0,
                            flatchain |-> <<>>, flatlnprobability |-> <<>>]
                      ELSE sampler
        /\ Observe("run", <<>>, <<>>,
                   IF calls THEN full_run ELSE NoRun,
                   IF l.st # "ret" THEN Raise(l.st)
                   ELSE IF ~built THEN Raise("ValueError")
                   ELSE IF m.st # "ret" THEN Raise(m.st)
                   ELSE Ret(0),
                   <<>>,
                   IF m.E.count = 0 THEN NoPush
                   ELSE generate_theory(m.E.last, full_run).pushed,
                   [ndim |-> ndim, before |-> n_walkers, N |-> N,
                    resume |-> resume, given |-> given,
                    pos0 |-> IF given THEN SuppliedPos0(nw, ndim) ELSE <<>>,
                    reset |-> IF resume THEN -1 ELSE nw,
                    generated |-> IF resume \/ l.st # "ret" THEN -1
                                  ELSE Len(l.pos0),
                    built |-> IF built THEN nw ELSE -1,
                    started |-> built /\ N > 0,
                    start |-> IF built /\ N > 0 THEN l.pos0 ELSE <<>>,
                    evaluations |-> m.E.count])
        /\ UNCHANGED <<initial_delta, cosmology, base_params, fit_params,
                       fit_keys, likelihoods, inserted>>

(* --------------------------- MCMC.get_bf_params ------------------------ *)
argmax_last(a) ==
    CHOOSE i \in 1..Len(a) :
        /\ \A j \in 1..Len(a) : ~Less(a[i], a[j])
        /\ \A j \in (i + 1)..Len(a) : Less(a[j], a[i])

\* numpy's argmax: the first index of the maximum
argmax(a) ==
    CHOOSE i \in 1..Len(a) :
        /\ \A j \in 1..Len(a) : ~Less(a[i], a[j])
        /\ \A j \in 1..(i - 1) : Less(a[j], a[i])

\* row r of the saved steps flattened step by step
FlatStep(b, r) == b.chain[((r - 1) \div b.nwalkers) + 1]
FlatWalker(b, r) == ((r - 1) % b.nwalkers) + 1

\* smp.flatlnprobability and smp.flatchain: [st, a]; a sampler built by run
\* reads the backend file, and raises when the file holds no step
flatlnprobability(smp) ==
    IF smp.own THEN [st |-> "ret", a |-> smp.flatlnprobability]
    ELSE IF Len(backend.chain) = 0 THEN [st |-> "AttributeError", a |-> <<>>]
    ELSE [st |-> "ret",
          a |-> [r \in 1..(Len(backend.chain) * backend.nwalkers) |->
                    FlatStep(backend, r).log_prob[FlatWalker(backend, r)]]]

flatchain(smp) ==
    IF smp.own THEN [st |-> "ret", a |-> smp.flatchain]
    ELSE IF Len(backend.chain) = 0 THEN [st |-> "AttributeError", a |-> <<>>]
    ELSE [st |-> "ret",
          a |-> [r \in 1..(Len(backend.chain) * backend.nwalkers) |->
                    FlatStep(backend, r).coords[FlatWalker(backend, r)]]]

\* get_bf_params when self.sampler is smp; [st, map]: the returned dict, or
\* the exception that escapes
bf_params(smp) ==
    IF ~smp.set THEN [st |-> "AttributeError", map |-> <<>>]
    ELSE Only({
        IF lnp.st # "ret" THEN [st |-> lnp.st, map |-> <<>>]
        ELSE IF Len(lnp.a) = 0 THEN [st |-> "ValueError", map |-> <<>>]
        ELSE LET bf_values == flatchain(smp).a[argmax(lnp.a)]
             IN  IF Len(fit_keys) > Len(bf_values)
                 THEN [st |-> "IndexError", map |-> <<>>]
                 ELSE [st |-> "ret",
                       map |-> [i \in 1..Len(fit_keys) |->
                                   Entry(fit_keys[i], bf_values[i])]]
        : lnp \in {flatlnprobability(smp)} })

get_bf_params == bf_params(sampler)

do_get_bf_params ==
    LET b == get_bf_params
    IN  /\ Observe("get_bf_params", <<>>, <<>>, NoRun,
                   IF b.st = "ret" THEN Ret(0) ELSE Raise(b.st), b.map,
                   NoPush, NoRunObs)
        /\ UNCHANGED <<state, inserted>>

(* ------------------- initial position specification ------------------- *)
NextInitPos ==
    \/ Configure
    \/ do_generate_initial_pos

SpecInitPos == Init /\ [][NextInitPos]_vars

(* ------------------- run controller specification ---------------------- *)
\* a step as the sampler saves it for walkers whose log-probabilities are
\* minus infinity
SavedStep(coords) ==
    [coords |-> coords, log_prob |-> [w \in 1..Len(coords) |-> LpNegInf]]

\* what backend_file can name before the object is used: no file, or a file
\* that an earlier run of two walkers in one dimension left one step in
BackendFiles ==
    {NoBackend,
     [initialized |-> TRUE, nwalkers |-> 2, ndim |-> 1,
      chain |-> <<SavedStep(<<<<F(0)>>, <<F(4)>>>>)>>]}

InitRun ==
    \E nw \in 1..MaxWalkers, delta \in {0, 1}, file \in BackendFiles :
        Attributes(nw, delta, NoSampler, file)

\* the configurations the runs are made with: one or two fit parameters
\* whose start positions lie inside or outside their bounds, and a fit
\* parameter whose fiducial value is an int
RunParams ==
    {d \in ParamDicts :
        /\ Len(d) > 0
        /\ \A i \in 1..Len(d) :
              \/ d[i].k = "H0" /\ d[i].v = Tuple(<<F(1), F(2), F(3)>>)
              \/ d[i].k = "ns" /\ d[i].v = List(<<F(0), F(1), F(2)>>)
              \/ d[i].k = "ns" /\ Len(d) = 1
                               /\ d[i].v = List(<<I(0), I(1), I(2)>>)}

\* the fresh runs take one matrix of draws for their start positions (the
\* positions themselves are the subject of SpecInitPos); a resume draws no
\* position
NextRun ==
    \/ \E params \in RunParams : set_params(params, TRUE)
    \/ reset_params
    \/ set_cosmology(TRUE)
    \/ \E N \in 0..MaxSteps, given \in BOOLEAN, full_run \in FullRuns :
          run(N, given, FALSE,
              FirstDraws(corrected_walkers(n_walkers, Len(fit_keys)),
                         Len(fit_keys)), full_run)
    \/ \E N \in 0..MaxSteps, given \in BOOLEAN, full_run \in FullRuns :
          run(N, given, TRUE, <<>>, full_run)

SpecRun == InitRun /\ [][NextRun]_vars

(* ------------------- best-fit specification ---------------------------- *)
\* the log-probabilities and chains of samplers assigned to self.sampler:
\* cell (r, c) of the flattened chain holds 10*r + c
LnVals == {LpNegInf, Lp(-1), Lp(0)}
FlatChain(rows, ndim) == [r \in 1..rows |-> [c \in 1..ndim |-> F(10 * r + c)]]
Samplers ==
    {[set |-> TRUE, own |-> TRUE, nwalkers |-> 0, ndim |-> width,
      start |-> <<>>, flatchain |-> FlatChain(Len(a), width),
      flatlnprobability |-> a] :
        a \in UNION {[1..rows -> LnVals] : rows \in 0..MaxRows},
        width \in 0..Cardinality(Keys)}

\* self.sampler is what the constructor left, or was assigned
InitBestFit ==
    \E smp \in Samplers \cup {NoSampler} : Attributes(2, 1, smp, NoBackend)

\* a change of the parameters after a run
Reconfigure ==
    /\ call = "run"
    /\ \/ \E params \in ParamDicts : set_params(params, TRUE)
       \/ reset_params

NextBestFit ==
    \/ Configure
    \/ set_cosmology(TRUE)
    \/ /\ ~sampler.set
       /\ \E full_run \in FullRuns :
              run(1, FALSE, FALSE,
                  FirstDraws(corrected_walkers(n_walkers, Len(fit_keys)),
                             Len(fit_keys)), full_run)
    \/ Reconfigure
    \/ do_get_bf_params

SpecBestFit == InitBestFit /\ [][NextBestFit]_vars

(* ------------------------------ claims --------------------------------- *)
\* every fit parameter has a lower bound, a fiducial value and an upper bound
WellFormed == \A n \in 1..Len(fit_params) : Len(fit_params[n].v) >= 3
Lower(i) == DictGet(fit_params, fit_keys[i])[1].v
Upper(i) == DictGet(fit_params, fit_keys[i])[3].v
Within(theta) ==
    \A i \in 1..Len(fit_keys) : Lower(i) <= theta[i].v /\ theta[i].v <= Upper(i)

\* C1: with a lower and an upper bound registered for every fit key, lnprior
\* returns 0 when every coordinate lies within its bounds (bounds included)
\* and negative infinity when some coordinate lies outside them
C1_LnpriorFlatWithinBounds ==
    (call = "lnprior" /\ WellFormed) =>
        /\ Within(arg_theta) => ret = Ret(0)
        /\ ~Within(arg_theta) => ret = NegInf

C1_Witness ==
    /\ call = "lnprior"
    /\ WellFormed
    /\ Len(fit_keys) = 2
    /\ arg_theta[1].v = Lower(1)
    /\ arg_theta[2].v = Upper(2)
    /\ ret = Ret(0)

RECURSIVE SumLikes(_, _)
SumLikes(i, ps) ==
    IF i > Len(likelihoods) THEN 0
    ELSE like_func(likelihoods[i], ps) + SumLikes(i + 1, ps)

\* C2: when the model evaluation succeeds and the prior is finite, lnprob
\* returns the prior plus the sum of every registered likelihood of the theory
C2_LnprobSumsLikelihoods ==
    (/\ call = "lnprob"
     /\ cosmology.set
     /\ arg_run.out = "returns"
     /\ WellFormed
     /\ Within(arg_theta)) => ret = Ret(0 + SumLikes(1, arg_run.ps))

\* C3 (as amended): with a cosmology set whose set_model_params returns,
\* lnprob returns negative infinity and raises nothing when full_run raises
\* an exception derived from Exception, and also when full_run returns but
\* some coordinate lies outside its registered bounds; generate_theory
\* reports the caught failure as the pair (None, True).  An exception of
\* set_model_params, and a full_run exception that is not derived from
\* Exception, escape from generate_theory and from lnprob.
C3_LnprobRejectsCaughtFailures ==
    /\ (call = "lnprob" /\ cosmology.set /\ arg_run.out = "fails")
           => ret = NegInf
    /\ (/\ call = "lnprob"
        /\ cosmology.set
        /\ arg_run.out = "returns"
        /\ WellFormed
        /\ ~Within(arg_theta)) => ret = NegInf
    /\ (call = "generate_theory" /\ cosmology.set /\ arg_run.out = "fails")
           => ret = Ret(0) /\ ret_val = <<TRUE>>
    /\ (/\ call \in {"lnprob", "generate_theory"}
        /\ cosmology.set
        /\ arg_run.out \in {"rejects", "interrupted"}) => Raised(ret)

C3_Witness ==
    /\ call = "lnprob"
    /\ cosmology.set
    /\ arg_run.out = "fails"
    /\ Len(likelihoods) > 0
    /\ Len(fit_keys) > 0
    /\ WellFormed
    /\ Within(arg_theta)
    /\ ret = NegInf

\* C3 (as claimed): with a cosmology set whose set_model_params returns,
\* lnprob returns negative infinity and raises nothing whenever full_run
\* raises, whatever it raises, and also when some coordinate lies outside
\* its registered bounds; generate_theory reports every raising full_run as
\* the pair (None, True)
C3_LnprobRejectsWithoutRaising ==
    /\ (/\ call = "lnprob"
        /\ cosmology.set
        /\ arg_run.out \in {"fails", "interrupted"}) => ret = NegInf
    /\ (/\ call = "lnprob"
        /\ cosmology.set
        /\ arg_run.out # "rejects"
        /\ WellFormed
        /\ ~Within(arg_theta)) => ret = NegInf
    /\ (/\ call = "generate_theory"
        /\ cosmology.set
        /\ arg_run.out \in {"fails", "interrupted"})
           => ret = Ret(0) /\ ret_val = <<TRUE>>

\* dicts d and e agree on key k
SameEntry(d, e, k) ==
    /\ DictHas(d, k) = DictHas(e, k)
    /\ DictHas(d, k) => DictGet(d, k) = DictGet(e, k)

\* C4 (as amended): set_params stores a value in fit_params, as a list,
\* exactly when it is a list or a tuple, of any length; every other value is
\* stored in base_params; the other mapping's entry for the key is left as
\* it was
C4_ClassifiedByType ==
    [][call' = "set_params" =>
        \A n \in 1..Len(arg_params') :
            LET k == arg_params'[n].k
                p == arg_params'[n].v
            IN  IF p.kind \in {"list", "tuple"}
                THEN /\ DictHas(fit_params', k)
                     /\ DictGet(fit_params', k) = p.items
                     /\ SameEntry(base_params', base_params, k)
                ELSE /\ DictHas(base_params', k)
                     /\ DictGet(base_params', k) = p.items[1]
                     /\ SameEntry(fit_params', fit_params, k)]_vars

C4_Witness ==
    /\ call = "set_params"
    /\ \E n, m \in 1..Len(arg_params) :
          /\ arg_params[n].v.kind = "tuple"
          /\ DictGet(fit_params, arg_params[n].k) = arg_params[n].v.items
          /\ arg_params[m].v.kind = "list"
          /\ Len(arg_params[m].v.items) # 3
          /\ DictGet(fit_params, arg_params[m].k) = arg_params[m].v.items

\* C4 (as claimed): set_params stores a value in fit_params exactly when it
\* is a list or tuple of length 3; every other value, a list or tuple of
\* another length included, is stored in base_params and not in fit_params
C4_ClassifiedByLength3 ==
    [][call' = "set_params" =>
        \A n \in 1..Len(arg_params') :
            LET k == arg_params'[n].k
                p == arg_params'[n].v
            IN  IF p.kind \in {"list", "tuple"} /\ Len(p.items) = 3
                THEN /\ DictHas(fit_params', k)
                     /\ DictGet(fit_params', k) = p.items
                     /\ SameEntry(base_params', base_params, k)
                ELSE /\ DictHas(base_params', k)
                     /\ p.kind = "scalar" =>
                            DictGet(base_params', k) = p.items[1]
                     /\ SameEntry(fit_params', fit_params, k)]_vars

\* a sampler whose best row is row 2 of a chain as wide as fit_keys
SyntheticSampler ==
    [set |-> TRUE, own |-> TRUE, nwalkers |-> 0, ndim |-> Len(fit_keys),
     start |-> <<>>, flatchain |-> FlatChain(2, Len(fit_keys)),
     flatlnprobability |-> <<Lp(-1), Lp(0)>>]

\* C5: fit_keys is the list of keys of fit_params, each once, in the order
\* they first entered the dict; lnprior, generate_theory and get_bf_params
\* pair coordinate i with the i-th key of fit_params
C5_FitKeysOrder ==
    /\ fit_keys = DictKeys(fit_params)
    /\ \A i, j \in 1..Len(fit_keys) : i # j => fit_keys[i] # fit_keys[j]
    /\ fit_keys = inserted
    /\ \A theta \in Thetas :
          /\ WellFormed =>
                (lnprior(theta) = Ret(0) <=>
                    \A i \in 1..Len(fit_params) :
                        /\ fit_params[i].v[1].v <= theta[i].v
                        /\ theta[i].v <= fit_params[i].v[3].v)
          /\ cosmology.set =>
                generate_theory(theta, [out |-> "returns", ps |-> 1]).pushed
                    = Push([i \in 1..Len(fit_params) |->
                               Entry(fit_params[i].k, theta[i])])
    /\ bf_params(SyntheticSampler).map
           = [i \in 1..Len(fit_params) |-> Entry(fit_params[i].k, F(20 + i))]

C5_Witness ==
    /\ call = "set_params"
    /\ Len(fit_keys) = 2
    /\ fit_keys = <<"ns", "H0">>
    /\ Len(arg_params) = 1
    /\ arg_params[1].k = fit_keys[1]
    /\ arg_params[1].v.kind = "list"
    /\ cosmology.set
    /\ WellFormed
    /\ Lower(1) # Lower(2)

\* C6: a run that finds n_walkers below 2*ndim uses 2*ndim walkers wherever
\* it uses a walker count (the attribute, the backend reset, the generated
\* positions, the sampler); otherwise n_walkers is left as it was
C6_WalkerCountCorrected ==
    call = "run" =>
        LET want == IF run_obs.before < 2 * Len(fit_keys)
                    THEN 2 * Len(fit_keys) ELSE run_obs.before
        IN  /\ n_walkers = want
            /\ run_obs.reset # -1 => run_obs.reset = want
            /\ run_obs.reset # -1 => backend.nwalkers = want
            /\ run_obs.generated # -1 => run_obs.generated = want
            /\ run_obs.built # -1 => run_obs.built = want
            /\ run_obs.started => sampler.nwalkers = want

C6_Witness ==
    /\ call = "run"
    /\ run_obs.before < 2 * Len(fit_keys)
    /\ ~run_obs.resume
    /\ n_walkers = 2 * Len(fit_keys)
    /\ run_obs.reset = 2 * Len(fit_keys)
    /\ run_obs.generated = 2 * Len(fit_keys)
    /\ run_obs.built = 2 * Len(fit_keys)
    /\ run_obs.started
    /\ sampler.nwalkers = 2 * Len(fit_keys)
    /\ Returned(ret)
    /\ Len(backend.chain) = run_obs.N
    /\ Len(backend.chain[1].coords) = 2 * Len(fit_keys)

\* C7: with initial_delta = 0, generate_initial_pos returns n_walkers
\* positions, each equal to the fiducial values in fit_keys order
C7_InitialPosAtDeltaZero ==
    (call = "generate_initial_pos" /\ initial_delta = 0) =>
        /\ Returned(ret)
        /\ Len(ret_val) = n_walkers
        /\ \A w \in 1..Len(ret_val) :
              /\ Len(ret_val[w]) = Len(fit_keys)
              /\ \A c \in 1..Len(fit_keys) :
                    ret_val[w][c].v = DictGet(fit_params, fit_keys[c])[2].v

\* the first index at which a attains its maximum
FirstMax(a) ==
    CHOOSE i \in 1..Len(a) :
        \A j \in 1..Len(a) : Less(a[j], a[i]) \/ (a[j] = a[i] /\ i <= j)

\* C8: with a sampler whose flattened arrays hold a row and whose chain is
\* at least as wide as fit_keys, get_bf_params returns a mapping whose keys
\* are fit_keys and whose value for fit_keys[i] is component i of the chain
\* row at the first index of the maximum log-probability
C8_BestFitIsArgmaxRow ==
    (/\ call = "get_bf_params"
     /\ sampler.set
     /\ flatlnprobability(sampler).st = "ret"
     /\ Len(flatlnprobability(sampler).a) > 0
     /\ Len(flatchain(sampler).a[1]) >= Len(fit_keys)) =>
        /\ Returned(ret)
        /\ DictKeys(ret_val) = fit_keys
        /\ \A i \in 1..Len(fit_keys) :
              ret_val[i].v =
                  flatchain(sampler).a[
                      FirstMax(flatlnprobability(sampler).a)][i]

C8_Witness ==
    /\ call = "get_bf_params"
    /\ sampler.set
    /\ Len(fit_keys) = 2
    /\ sampler.ndim = 2
    /\ sampler.flatlnprobability = <<LpNegInf, Lp(0), Lp(0)>>
    /\ Returned(ret)
    /\ ret_val[2] = Entry(fit_keys[2], F(22))

\* C9: positions supplied through pos0 are the ones the sampler starts
\* from, and the built-in generator runs only when none are supplied and the
\* run is not a resume
C9_SuppliedPos0IsUsed ==
    call = "run" =>
        /\ (run_obs.given /\ run_obs.started) => run_obs.start = run_obs.pos0
        /\ run_obs.generated # -1 => (~run_obs.given /\ ~run_obs.resume)

\* C10: no parameter name is a key of base_params and of fit_params at once
C10_BaseAndFitDisjoint ==
    \A k \in Keys : ~(DictHas(base_params, k) /\ DictHas(fit_params, k))

====
